---- MODULE Spec2Model ----
(***************************************************************************)
(* Lucefact: the diagram engine (class Visualizer) and the part of the     *)
(* host application (class LucefactApp) that listens to its events.        *)
(*                                                                         *)
(* Numbers.  scale is an IEEE double moved in steps of 0.1 and clamped to  *)
(* [0.5, 2].  It is kept here in tenths (10 stands for 1.0): the 45        *)
(* doubles that zoom can reach from 1.0 all lie within 1e-14 of a tenth    *)
(* and inside the clamps, and the clamped ends are exactly 0.5 and 2.      *)
(* Pointer coordinates and pan offsets are integers (pixels).              *)
(***************************************************************************)
EXTENDS Integers, Sequences, FiniteSets, TLC

(***************************************************************************)
(* Bounds of the model.                                                    *)
(***************************************************************************)
\* pointer coordinates clientX, clientY range over 0..MaxCoord
MaxCoord == 1
\* a drag is followed while the pan offset stays within -MaxPan..MaxPan
MaxPan == 1
\* the largest number of layers of a model whose extent is computed
MaxLayers == 61

(***************************************************************************)
(* Program constants.                                                      *)
(***************************************************************************)
\* private scale = 1, in tenths
ScaleOne == 10
\* Math.min(2, ...), in tenths
ScaleMax == 20
\* Math.max(0.5, ...), in tenths
ScaleMin == 5
\* this.scale + 0.1 / this.scale - 0.1, in tenths
ScaleStep == 1
\* detail.count >= 2
CompareMin == 2
\* detail.count <= 3
CompareMax == 3
\* (e as any).detail === 2
DoubleClick == 2

\* a value that may be null or undefined: << >> when it is, <<v>> otherwise
Null == << >>
Some(v) == <<v>>
\* an optional argument that was not passed
Undefined == "undefined"

Min(a, b) == IF a < b THEN a ELSE b
Max(a, b) == IF a > b THEN a ELSE b

(***************************************************************************)
(* Data: LayerRecord, ModelMetadata.layers, LayoutType.                    *)
(***************************************************************************)
LayoutType == {"vertical", "horizontal", "circular", "tree"}

Layer(n, t, p) == [name |-> n, type |-> t, parameters |-> p]

\* ModelMetadata, of which the engine reads the layers only
Metadata(layers) == [layers |-> layers]

\* four layers with distinct names and two alternating types
ModelChain ==
    Metadata(<< Layer("conv1", "Conv2D", 4), Layer("fc1", "Dense", 2),
       Layer("conv2", "Conv2D", 0), Layer("fc2", "Dense", 4) >>)

\* layer names are not unique: the first and the last layer share a name
ModelDup ==
    Metadata(<< Layer("block", "Conv2D", 2), Layer("bn", "BatchNorm", 0),
       Layer("block", "Dense", 1) >>)

ModelEmpty == Metadata(<< >>)

Models == {ModelChain, ModelDup, ModelEmpty}

\* two layers of different types and sizes
ModelPair == Metadata(<< Layer("a", "Dense", 1), Layer("b", "Conv2D", 3) >>)

\* no layer has parameters
ModelZero == Metadata(<< Layer("a", "Dense", 0), Layer("b", "Dense", 0) >>)

\* a single layer
ModelSingle == Metadata(<< Layer("a", "Dense", 2) >>)

\* a layer type that is the name of an inherited object property
ModelProto ==
    Metadata(<< Layer("a", "Dense", 1), Layer("b", "constructor", 3) >>)

\* layer types that are array-index keys
ModelNumeric ==
    Metadata(<< Layer("a", "2", 1), Layer("b", "Dense", 3), Layer("c", "1", 2) >>)

LayoutModels ==
    {ModelChain, ModelEmpty, ModelZero, ModelSingle, ModelProto, ModelNumeric}

\* the layout arguments of visualize and setLayout: the four kinds and a
\* string outside the enumeration
LayoutArgs == LayoutType \cup {"grid"}

\* a model of n layers of one type
ModelOf(n) == Metadata([i \in 1..n |-> Layer("a", "Dense", 1)])

\* the terms typed into the search box
Terms == {"", "conv", "CONV", "bn"}

\* the models searched in
SearchModels == {ModelDup, ModelSingle}

Coord == 0..MaxCoord

VARIABLES
    scale, translateX, translateY,      \* ViewTransform
    isDragging, startX, startY, startTranslateX, startTranslateY,
    currentLayout, currentMetadata,
    nodes,              \* the .layer-node elements of the canvas, in document order
    searchTerm,         \* Visualizer.searchTerm, as its sequence of characters
    canvasHeight,       \* canvas.style.height in px (Null while never set)
    connectors,         \* the connectors, arrows and lines of #viz-container
    container,          \* #viz-container (Null while the canvas has none)
    groups,             \* the .layer-group elements of the tree layout
    hideLabels,         \* canvas.classList has 'hide-labels'
    hideParams,         \* canvas.classList has 'hide-params'
    exportPc,           \* where a running exportAsImage is suspended
    exportLayout,       \* the layout that was active when it was called
    alerted,            \* the alert raised by the last step of exportAsImage
    downloaded,         \* the download triggered by that step (Null if none)
    firstSurface,       \* observer: what the first setLayout after a load
                        \* rendered, with its layout kind
    thrown,             \* whether the last operation ended by throwing
    modalVisible,       \* host: display of #comparison-modal
    comparison,         \* host: the layers rendered into #comparison-content
    detailPanel,        \* host: the layer shown in #layer-detail-panel
    emitted,            \* the CustomEvents dispatched by the last operation
    toast,              \* the toast raised by the last operation ("" when none)
    lastOp              \* the operation that ran last, with the node or the
                        \* pointer position it was given

view == <<scale, translateX, translateY>>
drag == <<isDragging, startX, startY, startTranslateX, startTranslateY>>
engine == <<currentLayout, currentMetadata, nodes, searchTerm, canvasHeight,
            connectors, container, groups>>
toggles == <<hideLabels, hideParams>>
export == <<exportPc, exportLayout, alerted, downloaded>>
aux == <<toggles, export, firstSurface>>
host == <<modalVisible, comparison, detailPanel>>
vars == <<scale, translateX, translateY, isDragging, startX, startY,
          startTranslateX, startTranslateY, currentLayout, currentMetadata,
          nodes, searchTerm, canvasHeight, connectors, container, groups,
          hideLabels, hideParams, exportPc, exportLayout, alerted,
          downloaded, firstSurface, thrown,
          modalVisible, comparison, detailPanel, emitted, toast, lastOp>>

Init ==
    /\ scale = ScaleOne
    /\ translateX = 0
    /\ translateY = 0
    /\ isDragging = FALSE
    /\ startX = 0
    /\ startY = 0
    /\ startTranslateX = 0
    /\ startTranslateY = 0
    /\ currentLayout = "vertical"
    /\ currentMetadata = Null
    /\ nodes = << >>
    /\ searchTerm = << >>
    /\ canvasHeight = Null
    /\ connectors = << >>
    /\ container = Null
    /\ groups = << >>
    /\ hideLabels = FALSE
    /\ hideParams = FALSE
    /\ exportPc = "idle"
    /\ exportLayout = ""
    /\ alerted = ""
    /\ downloaded = Null
    /\ firstSurface = Null
    /\ thrown = FALSE
    /\ modalVisible = FALSE
    /\ comparison = << >>
    /\ detailPanel = Null
    /\ emitted = << >>
    /\ toast = ""
    /\ lastOp = [op |-> "new", node |-> 0, x |-> 0, y |-> 0, layout |-> ""]

Did(op) == [op |-> op, node |-> 0, x |-> 0, y |-> 0, layout |-> ""]
DidAt(op, px, py) == [op |-> op, node |-> 0, x |-> px, y |-> py, layout |-> ""]
DidOn(op, i) == [op |-> op, node |-> i, x |-> 0, y |-> 0, layout |-> ""]
\* visualize or setLayout, with the layout argument it was given
DidLayout(op, layout) ==
    [op |-> op, node |-> 0, x |-> 0, y |-> 0, layout |-> layout]

\* an operation that dispatches no event and raises no toast
Silent(did) ==
    /\ emitted' = << >>
    /\ toast' = ""
    /\ lastOp' = did

\* a silent operation that returns normally
Quiet(did) ==
    /\ Silent(did)
    /\ thrown' = FALSE

(***************************************************************************)
(* Interaction controller: Visualizer.setupEventListeners, zoom, reset.    *)
(***************************************************************************)
\* variant: the wheel is mapped to zoom
wheelZooms ==
    /\ scale' = Min(ScaleMax, scale + ScaleStep)
    /\ Quiet(Did("wheel"))
    /\ UNCHANGED <<translateX, translateY, drag, engine, host, aux>>

wheel ==
    /\ Quiet(Did("wheel"))
    /\ UNCHANGED <<view, drag, engine, host, aux>>

mousedown(px, py) ==
    /\ isDragging' = TRUE
    /\ startX' = px
    /\ startY' = py
    /\ startTranslateX' = translateX
    /\ startTranslateY' = translateY
    /\ Quiet(DidAt("mousedown", px, py))
    /\ UNCHANGED <<view, engine, host, aux>>

\* the pan offset a mousemove at (px, py) computes while dragging
DragTranslate(start, p, p0) == start + (p - p0)

InPan(t) == -MaxPan <= t /\ t <= MaxPan

\* variant: each move adds its delta to the current offset
mousemoveAccumulates(px, py) ==
    /\ IF isDragging
       THEN /\ InPan(translateX + (px - startX))
            /\ InPan(translateY + (py - startY))
            /\ translateX' = translateX + (px - startX)
            /\ translateY' = translateY + (py - startY)
       ELSE UNCHANGED <<translateX, translateY>>
    /\ Quiet(DidAt("mousemove", px, py))
    /\ UNCHANGED <<scale, drag, engine, host, aux>>

mousemove(px, py) ==
    /\ IF isDragging
       THEN /\ InPan(DragTranslate(startTranslateX, px, startX))
            /\ InPan(DragTranslate(startTranslateY, py, startY))
            /\ translateX' = DragTranslate(startTranslateX, px, startX)
            /\ translateY' = DragTranslate(startTranslateY, py, startY)
       ELSE UNCHANGED <<translateX, translateY>>
    /\ Quiet(DidAt("mousemove", px, py))
    /\ UNCHANGED <<scale, drag, engine, host, aux>>

mouseup ==
    /\ isDragging' = FALSE
    /\ Quiet(Did("mouseup"))
    /\ UNCHANGED <<view, startX, startY, startTranslateX, startTranslateY,
                   engine, host, aux>>

\* variant: leaving the canvas does not end the drag
mouseleaveKeepsDrag ==
    /\ Quiet(Did("mouseleave"))
    /\ UNCHANGED <<view, drag, engine, host, aux>>

mouseleave ==
    /\ isDragging' = FALSE
    /\ Quiet(Did("mouseleave"))
    /\ UNCHANGED <<view, startX, startY, startTranslateX, startTranslateY,
                   engine, host, aux>>

\* variant: zooming in is not clamped
ZoomScaleUnclamped(direction, s) ==
    IF direction = "in"
    THEN s + ScaleStep
    ELSE Max(ScaleMin, s - ScaleStep)

ZoomScale(direction, s) ==
    IF direction = "in"
    THEN Min(ScaleMax, s + ScaleStep)
    ELSE Max(ScaleMin, s - ScaleStep)

zoom(direction) ==
    /\ scale' = ZoomScale(direction, scale)
    /\ Quiet(Did(IF direction = "in" THEN "zoomIn" ELSE "zoomOut"))
    /\ UNCHANGED <<translateX, translateY, drag, engine, host, aux>>

\* variant: reset restores the scale only
resetScaleOnly ==
    /\ scale' = ScaleOne
    /\ Quiet(Did("reset"))
    /\ UNCHANGED <<translateX, translateY, drag, engine, host, aux>>

reset ==
    /\ scale' = ScaleOne
    /\ translateX' = 0
    /\ translateY' = 0
    /\ Quiet(Did("reset"))
    /\ UNCHANGED <<drag, engine, host, aux>>

(***************************************************************************)
(* Layout: the .layer-node elements each strategy appends, in document     *)
(* order.                                                                  *)
(***************************************************************************)
\* property keys that are array indices: Object.entries lists them first,
\* in ascending numeric order, before the other keys in insertion order
IndexKeys == <<"0", "1", "2", "3", "4", "5", "6", "7", "8", "9">>

IsIndexKey(t) == \E k \in DOMAIN IndexKeys : IndexKeys[k] = t

RECURSIVE Dedup(_)
Dedup(s) ==
    IF s = << >> THEN << >>
    ELSE <<Head(s)>> \o SelectSeq(Dedup(Tail(s)), LAMBDA x : x # Head(s))

TypesOf(layers) == [i \in DOMAIN layers |-> layers[i].type]

\* Object.entries(layersByType): the keys of the grouping object
GroupKeys(layers) ==
    SelectSeq(IndexKeys, LAMBDA k : \E i \in DOMAIN layers : layers[i].type = k)
    \o SelectSeq(Dedup(TypesOf(layers)), LAMBDA t : ~IsIndexKey(t))

\* layersByType[type]
GroupOf(layers, t) == SelectSeq(layers, LAMBDA l : l.type = t)

RECURSIVE Flatten(_, _)
RECURSIVE Concat(_)
\* the members of a sequence of sequences, in order
Concat(ss) == IF ss = << >> THEN << >> ELSE Head(ss) \o Concat(Tail(ss))

Flatten(layers, keys) ==
    IF keys = << >> THEN << >>
    ELSE GroupOf(layers, Head(keys)) \o Flatten(layers, Tail(keys))

\* renderTreeLayout: the layers in the order their nodes are appended
TreeOrder(layers) == Flatten(layers, GroupKeys(layers))

\* property names every object inherits from Object.prototype: for such a
\* key k, layersByType[k] is truthy before any assignment and has no push
ProtoKeys ==
    {"constructor", "toString", "toLocaleString", "valueOf", "hasOwnProperty",
     "isPrototypeOf", "propertyIsEnumerable", "__proto__",
     "__defineGetter__", "__defineSetter__", "__lookupGetter__",
     "__lookupSetter__"}

\* renderTreeLayout throws a TypeError (layersByType[layer.type].push is not
\* a function) at the first layer whose type is an inherited property name
TreeThrows(layers) == \E i \in DOMAIN layers : layers[i].type \in ProtoKeys

\* A JavaScript number that is a quotient of integers: num / den with
\* den > 0, or NaN (0 / 0), written [num |-> 0, den |-> 0].
Frac(num, den) == [num |-> num, den |-> den]
IsNaN(q) == q.den = 0
\* a >= b; a comparison with NaN is false
FracGE(a, b) == ~IsNaN(a) /\ ~IsNaN(b) /\ a.num * b.den >= b.num * a.den

\* Math.max(...) of a non-empty sequence of numbers
MaxOf(ps) ==
    CHOOSE p \in {ps[i] : i \in DOMAIN ps} : \A i \in DOMAIN ps : ps[i] <= p

\* Math.max(...metadata.layers.map(l => l.parameters))
MaxParams(layers) == MaxOf([i \in DOMAIN layers |-> layers[i].parameters])

\* layer.parameters / maxParams
RelativeSize(layer, layers) == Frac(layer.parameters, MaxParams(layers))

\* minWidth + (maxWidth - minWidth) * relativeSize
WidthOf(layout, rel) ==
    IF layout = "horizontal"
    THEN Frac(280 * rel.den + (350 - 280) * rel.num, rel.den)
    ELSE Frac(300 * rel.den + (500 - 300) * rel.num, rel.den)

\* createLayerNode: a fresh node, neither selected, dimmed nor highlighted;
\* width is the px value of its style (width for horizontal, maxWidth for
\* the other layouts), sizeBar the % value of the size bar's width
NewNode(layer, layout, layers) ==
    LET relativeSize == RelativeSize(layer, layers) IN
    [layer |-> layer, selected |-> FALSE,
     dimmed |-> FALSE, highlighted |-> FALSE, pos |-> Null,
     width |-> WidthOf(layout, relativeSize),
     sizeBar |-> Frac(100 * relativeSize.num, relativeSize.den)]

\* variant: the radius is not limited above
CircularRadiusUnbounded(layerCount) == Max(200, layerCount * 15)

\* renderCircularLayout: radius and size for layerCount layers
CircularRadius(layerCount) == Min(300, Max(200, layerCount * 15))
CircularSize(layerCount) == (CircularRadius(layerCount) * 2) + 150 + 100

\* variant: the first node is placed at angle 0
CircularTurnFromRight(index, layerCount) == Frac(4 * index, 4 * layerCount)

\* the angle of the node of the given index (from 0), as a fraction of a
\* full turn: (index / length) * 2 * Math.PI - Math.PI / 2 is
\* (index / length - 1 / 4) * 2 * Math.PI
CircularTurn(index, layerCount) ==
    Frac(4 * index - layerCount, 4 * layerCount)

\* the left and top of a node of the circle, which translate(-50%, -50%)
\* makes its centre: left = centerX + radius * cos(2 * PI * turn) and
\* top = centerY + radius * sin(2 * PI * turn)
CircularPos(index, layerCount) ==
    [centerX |-> Frac(CircularSize(layerCount), 2),
     centerY |-> Frac(CircularSize(layerCount), 2),
     radius |-> CircularRadius(layerCount),
     turn |-> CircularTurn(index, layerCount)]

\* the switch of visualize: the nodes of the new #viz-container
RenderNodes(layout, layers) ==
    CASE layout \in {"vertical", "horizontal"} ->
             [i \in DOMAIN layers |-> NewNode(layers[i], layout, layers)]
      [] layout = "circular" ->
             [i \in DOMAIN layers |->
                [NewNode(layers[i], layout, layers) EXCEPT
                    !.pos = Some(CircularPos(i - 1, Len(layers)))]]
      [] layout = "tree" ->
             LET order == TreeOrder(layers) IN
             [i \in DOMAIN layers |-> NewNode(order[i], layout, layers)]
      [] OTHER -> << >>

\* a connector element between the nodes of layers from and to
Connector(class, from, to) == [class |-> class, from |-> from, to |-> to]

\* variant: the circle is closed by a line from the last node to the first
RenderConnectorsClosed(layout, layers) ==
    CASE layout = "vertical" ->
             [i \in 1..(Len(layers) - 1) |->
                Connector("layer-connector vertical", i, i + 1)]
      [] layout = "horizontal" ->
             [i \in 1..(Len(layers) - 1) |-> Connector("layer-arrow", i, i + 1)]
      [] layout = "circular" ->
             [i \in 1..Len(layers) |->
                Connector("connection-line", i, (i % Len(layers)) + 1)]
      [] OTHER -> << >>

\* the connectors each strategy appends: before every node but the first
\* (vertical, horizontal), after every node but the last (circular)
RenderConnectors(layout, layers) ==
    CASE layout = "vertical" ->
             [i \in 1..(Len(layers) - 1) |->
                Connector("layer-connector vertical", i, i + 1)]
      [] layout = "horizontal" ->
             [i \in 1..(Len(layers) - 1) |-> Connector("layer-arrow", i, i + 1)]
      [] layout = "circular" ->
             [i \in 1..(Len(layers) - 1) |->
                Connector("connection-line", i, i + 1)]
      [] OTHER -> << >>

\* the .layer-group elements of the tree layout, in the order of
\* Object.entries: the header shows type and layers.length
RenderGroups(layout, layers) ==
    IF layout = "tree"
    THEN LET keys == GroupKeys(layers) IN
         [g \in DOMAIN keys |->
            [type |-> keys[g],
             count |-> Len(GroupOf(layers, keys[g])),
             members |-> GroupOf(layers, keys[g])]]
    ELSE << >>

\* #viz-container: its width and height in px, which only the circular
\* strategy sets
RenderContainer(layout, layers) ==
    Some([size |-> IF layout = "circular"
                   THEN Some(CircularSize(Len(layers)))
                   ELSE Null])

\* variant: the canvas never shrinks
CanvasHeightGrows(layout, n, before) ==
    LET h == CASE layout = "vertical" -> Max(600, n * 150 + 100)
               [] layout = "horizontal" -> Max(600, ((n + 2) \div 3) * 180 + 100)
               [] layout = "circular" -> (Min(300, Max(200, n * 15)) * 2) + 150 + 100
               [] layout = "tree" -> Min(400 + n * 10, 1000)
               [] OTHER -> 0
    IN IF before = Null THEN Some(h) ELSE Some(Max(h, before[1]))

\* variant: the rows of the horizontal layout are rounded down
CanvasHeightFloor(layout, n, before) ==
    CASE layout = "vertical" -> Some(Max(600, n * 150 + 100))
      [] layout = "horizontal" -> Some(Max(600, (n \div 3) * 180 + 100))
      [] layout = "circular" -> Some((Min(300, Max(200, n * 15)) * 2) + 150 + 100)
      [] layout = "tree" -> Some(Min(400 + n * 10, 1000))
      [] OTHER -> before

\* the auto-sizing of visualize: canvas.style.height in px for n layers; a
\* layout that matches no branch leaves the height as it is
CanvasHeight(layout, n, before) ==
    CASE layout = "vertical" -> Some(Max(600, n * 150 + 100))
      [] layout = "horizontal" -> Some(Max(600, ((n + 2) \div 3) * 180 + 100))
      [] layout = "circular" -> Some((Min(300, Max(200, n * 15)) * 2) + 150 + 100)
      [] layout = "tree" -> Some(Min(400 + n * 10, 1000))
      [] OTHER -> before

\* variant: a call without a layout falls back to the default layout
LayoutAfterDefault(layout) == IF layout = Undefined THEN "vertical" ELSE layout

(***************************************************************************)
(* Diagram engine: Visualizer.visualize, setLayout.                        *)
(***************************************************************************)
\* if (layout) this.currentLayout = layout
LayoutAfter(layout) == IF layout = Undefined THEN currentLayout ELSE layout

\* the canvas is emptied and sized first; when the tree strategy throws, the
\* new container is never appended and the exception leaves visualize
DoVisualize(metadata, layout) ==
    /\ currentMetadata' = Some(metadata)
    /\ currentLayout' = LayoutAfter(layout)
    /\ canvasHeight' =
          CanvasHeight(LayoutAfter(layout), Len(metadata.layers), canvasHeight)
    /\ IF LayoutAfter(layout) = "tree" /\ TreeThrows(metadata.layers)
       THEN /\ nodes' = << >>
            /\ connectors' = << >>
            /\ container' = Null
            /\ groups' = << >>
            /\ thrown' = TRUE
       ELSE /\ nodes' = RenderNodes(LayoutAfter(layout), metadata.layers)
            /\ connectors' = RenderConnectors(LayoutAfter(layout), metadata.layers)
            /\ container' = RenderContainer(LayoutAfter(layout), metadata.layers)
            /\ groups' = RenderGroups(LayoutAfter(layout), metadata.layers)
            /\ thrown' = FALSE
    /\ UNCHANGED <<view, searchTerm>>

\* a call of visualize, without the observer
VisualizeCall(metadata, layout) ==
    /\ DoVisualize(metadata, layout)
    /\ Silent(DidLayout("visualize", layout))
    /\ UNCHANGED <<drag, host, toggles, export>>

visualize(metadata, layout) ==
    /\ VisualizeCall(metadata, layout)
    /\ UNCHANGED firstSurface

\* variant: the layout kind is stored before the model is looked at
setLayoutEager(layout) ==
    /\ IF currentMetadata # Null
       THEN DoVisualize(currentMetadata[1], layout)
       ELSE /\ currentLayout' = layout
            /\ thrown' = FALSE
            /\ UNCHANGED <<view, currentMetadata, nodes, searchTerm,
                           canvasHeight, connectors, container, groups>>
    /\ Silent(DidLayout("setLayout", layout))
    /\ UNCHANGED <<drag, host, aux>>

\* a call of setLayout, without the observer
SetLayoutCall(layout) ==
    /\ IF currentMetadata # Null
       THEN DoVisualize(currentMetadata[1], layout)
       ELSE /\ thrown' = FALSE
            /\ UNCHANGED <<view, engine>>
    /\ Silent(DidLayout("setLayout", layout))
    /\ UNCHANGED <<drag, host, toggles, export>>

setLayout(layout) ==
    /\ SetLayoutCall(layout)
    /\ UNCHANGED firstSurface

\* what a render has placed: the nodes with their sizes and positions, the
\* connectors, the groups, the container and the canvas height
Placement(ns) ==
    [k \in DOMAIN ns |->
        [layer |-> ns[k].layer, width |-> ns[k].width,
         sizeBar |-> ns[k].sizeBar, pos |-> ns[k].pos]]
SurfaceOf(ns, cs, gs, c, h) ==
    [nodes |-> Placement(ns), connectors |-> cs, groups |-> gs,
     container |-> c, canvasHeight |-> h]

\* visualize(metadata), observed: nothing was laid out by setLayout yet
observedLoad(metadata) ==
    /\ VisualizeCall(metadata, Undefined)
    /\ firstSurface' = Null

\* setLayout(layout), observed: the first call after a load records what
\* it rendered; between records that another kind was laid out since
observedSetLayout(layout) ==
    /\ SetLayoutCall(layout)
    /\ firstSurface' =
          IF currentMetadata = Null THEN firstSurface
          ELSE IF firstSurface = Null
          THEN Some([layout |-> layout, between |-> FALSE,
                     surface |-> SurfaceOf(nodes', connectors', groups',
                                           container', canvasHeight')])
          ELSE IF layout # firstSurface[1].layout
          THEN Some([firstSurface[1] EXCEPT !.between = TRUE])
          ELSE firstSurface

(***************************************************************************)
(* Search: Visualizer.search.  A string is looked at through Spell, the    *)
(* sequence of its characters.                                             *)
(***************************************************************************)
Spell(str) ==
    CASE str = "" -> << >>
      [] str = "conv" -> <<"c", "o", "n", "v">>
      [] str = "CONV" -> <<"C", "O", "N", "V">>
      [] str = "de" -> <<"d", "e">>
      [] str = "conv1" -> <<"c", "o", "n", "v", "1">>
      [] str = "conv2" -> <<"c", "o", "n", "v", "2">>
      [] str = "fc1" -> <<"f", "c", "1">>
      [] str = "fc2" -> <<"f", "c", "2">>
      [] str = "block" -> <<"b", "l", "o", "c", "k">>
      [] str = "bn" -> <<"b", "n">>
      [] str = "Conv2D" -> <<"C", "o", "n", "v", "2", "D">>
      [] str = "Dense" -> <<"D", "e", "n", "s", "e">>
      [] str = "BatchNorm" -> <<"B", "a", "t", "c", "h", "N", "o", "r", "m">>
      [] str = "a" -> <<"a">>
      [] str = "b" -> <<"b">>
      [] str = "c" -> <<"c">>
      [] str = "constructor" ->
             <<"c", "o", "n", "s", "t", "r", "u", "c", "t", "o", "r">>
      [] str = "1" -> <<"1">>
      [] str = "2" -> <<"2">>

UpperCase ==
    <<"A", "B", "C", "D", "E", "F", "G", "H", "I", "J", "K", "L", "M",
      "N", "O", "P", "Q", "R", "S", "T", "U", "V", "W", "X", "Y", "Z">>
LowerCase ==
    <<"a", "b", "c", "d", "e", "f", "g", "h", "i", "j", "k", "l", "m",
      "n", "o", "p", "q", "r", "s", "t", "u", "v", "w", "x", "y", "z">>

LowerChar(ch) ==
    IF \E k \in DOMAIN UpperCase : UpperCase[k] = ch
    THEN LowerCase[CHOOSE k \in DOMAIN UpperCase : UpperCase[k] = ch]
    ELSE ch

\* String.prototype.toLowerCase
ToLowerCase(chars) == [k \in DOMAIN chars |-> LowerChar(chars[k])]

\* String.prototype.includes
Includes(chars, part) ==
    \E k \in 0..(Len(chars) - Len(part)) :
        SubSeq(chars, k + 1, k + Len(part)) = part

\* variant: the term is compared as typed
MatchesCaseSensitive(node, term) ==
    \/ term = ""
    \/ Includes(ToLowerCase(Spell(node.layer.name)), Spell(term))
    \/ Includes(ToLowerCase(Spell(node.layer.type)), Spell(term))

\* term === '' || layerName.includes(this.searchTerm)
\*             || layerType.includes(this.searchTerm)
Matches(node, term) ==
    \/ term = ""
    \/ Includes(ToLowerCase(Spell(node.layer.name)), ToLowerCase(Spell(term)))
    \/ Includes(ToLowerCase(Spell(node.layer.type)), ToLowerCase(Spell(term)))

\* the classes of one node after the forEach body of search
Classify(node, term) ==
    IF Matches(node, term)
    THEN [node EXCEPT !.dimmed = FALSE, !.highlighted = (term # "")]
    ELSE [node EXCEPT !.dimmed = TRUE, !.highlighted = FALSE]

\* variant: a search removes the nodes that do not match
searchFilters(term) ==
    /\ searchTerm' = ToLowerCase(Spell(term))
    /\ nodes' = SelectSeq([k \in DOMAIN nodes |-> Classify(nodes[k], term)],
                          LAMBDA n : ~n.dimmed)
    /\ Quiet(Did("search"))
    /\ UNCHANGED <<view, drag, currentLayout, currentMetadata, canvasHeight,
                   connectors, container, groups, host, aux>>

\* variant: a search clears the selection
searchDeselects(term) ==
    /\ searchTerm' = ToLowerCase(Spell(term))
    /\ nodes' = [k \in DOMAIN nodes |->
                    [Classify(nodes[k], term) EXCEPT !.selected = FALSE]]
    /\ Quiet(Did("search"))
    /\ UNCHANGED <<view, drag, currentLayout, currentMetadata, canvasHeight,
                   connectors, container, groups, host, aux>>

search(term) ==
    /\ searchTerm' = ToLowerCase(Spell(term))
    /\ nodes' = [k \in DOMAIN nodes |-> Classify(nodes[k], term)]
    /\ Quiet(Did("search"))
    /\ UNCHANGED <<view, drag, currentLayout, currentMetadata, canvasHeight,
                   connectors, container, groups, host, aux>>

(***************************************************************************)
(* Visibility toggles: Visualizer.toggleLabels, toggleParams.              *)
(***************************************************************************)
toggleLabels ==
    /\ hideLabels' = ~hideLabels
    /\ Quiet(Did("toggleLabels"))
    /\ UNCHANGED <<view, drag, engine, host, hideParams, export, firstSurface>>

toggleParams ==
    /\ hideParams' = ~hideParams
    /\ Quiet(Did("toggleParams"))
    /\ UNCHANGED <<view, drag, engine, host, hideLabels, export, firstSurface>>

(***************************************************************************)
(* Export: Visualizer.exportAsImage, an async function that is suspended   *)
(* while html2canvas rasterizes and while canvas.toBlob encodes.  One      *)
(* export is followed at a time; the timestamp of the file name is left    *)
(* out.                                                                    *)
(***************************************************************************)
\* the frame of a step of exportAsImage
ExportStep(did) ==
    /\ Quiet(did)
    /\ UNCHANGED <<view, drag, engine, host, toggles, firstSurface>>

\* the call, up to the await
exportAsImage ==
    /\ exportPc = "idle"
    /\ IF container = Null
       THEN /\ alerted' = "No visualization to export"
            /\ UNCHANGED <<exportPc, exportLayout>>
       ELSE /\ alerted' = ""
            /\ exportPc' = "rasterizing"
            /\ exportLayout' = currentLayout
    /\ downloaded' = Null
    /\ ExportStep(Did("exportAsImage"))

\* html2canvas resolves: canvas.toBlob is called
rasterized ==
    /\ exportPc = "rasterizing"
    /\ exportPc' = "encoding"
    /\ alerted' = ""
    /\ downloaded' = Null
    /\ UNCHANGED exportLayout
    /\ ExportStep(Did("rasterized"))

\* html2canvas rejects: the catch block
rasterFailed ==
    /\ exportPc = "rasterizing"
    /\ exportPc' = "idle"
    /\ alerted' = "Failed to export image. Please try again."
    /\ downloaded' = Null
    /\ UNCHANGED exportLayout
    /\ ExportStep(Did("rasterFailed"))

\* the toBlob callback with a blob: link.download names the file after
\* this.currentLayout, and link.click() starts the download
blobReady ==
    /\ exportPc = "encoding"
    /\ exportPc' = "idle"
    /\ alerted' = ""
    /\ downloaded' = Some([layout |-> currentLayout, started |-> exportLayout])
    /\ UNCHANGED exportLayout
    /\ ExportStep(Did("blobReady"))

\* the toBlob callback without a blob: if (!blob) return
blobMissing ==
    /\ exportPc = "encoding"
    /\ exportPc' = "idle"
    /\ alerted' = ""
    /\ downloaded' = Null
    /\ UNCHANGED exportLayout
    /\ ExportStep(Did("blobMissing"))

(***************************************************************************)
(* Selection: the click listener of createLayerNode, and the host's        *)
(* listeners (LucefactApp.initVisualizer, handleLayerSelection).           *)
(***************************************************************************)
\* variant: classList.add in place of classList.toggle
ToggleNodeAdds(ns, i) == [ns EXCEPT ![i].selected = TRUE]

\* node.classList.toggle('selected')
ToggleNode(ns, i) == [ns EXCEPT ![i].selected = ~ns[i].selected]

\* canvas.querySelectorAll('.layer-node.selected')
SelectedNodes(ns) == SelectSeq(ns, LAMBDA n : n.selected)

\* n.querySelector('.layer-name')?.textContent || ''
NodeName(n) == n.layer.name

\* metadata.layers.find(l => l.name === name)
FindByName(layers, name) ==
    IF \E i \in DOMAIN layers : layers[i].name = name
    THEN Some(layers[CHOOSE i \in DOMAIN layers :
                       /\ layers[i].name = name
                       /\ \A j \in DOMAIN layers : layers[j].name = name => i <= j])
    ELSE Null

\* selectedLayers.map(...).filter(Boolean)
ResolveLayers(sel, layers) ==
    Concat([k \in DOMAIN sel |-> FindByName(layers, NodeName(sel[k]))])

\* new CustomEvent('layerSelection', ...)
SelectionEvent(ns, layers) ==
    [type |-> "layerSelection",
     count |-> Len(SelectedNodes(ns)),
     layers |-> ResolveLayers(SelectedNodes(ns), layers)]

\* new CustomEvent('layerClick', { detail: layer })
ClickEvent(layer) == [type |-> "layerClick", layer |-> layer]

\* variant: an overflowing selection closes the comparison
handleLayerSelectionStrict(detail) ==
    IF detail.count >= CompareMin /\ detail.count <= CompareMax
    THEN /\ modalVisible' = TRUE
         /\ comparison' = detail.layers
         /\ toast' = ""
    ELSE /\ modalVisible' = FALSE
         /\ toast' = ""
         /\ UNCHANGED comparison

\* LucefactApp.handleLayerSelection
handleLayerSelection(detail) ==
    IF detail.count >= CompareMin /\ detail.count <= CompareMax
    THEN /\ modalVisible' = TRUE
         /\ comparison' = detail.layers
         /\ toast' = ""
    ELSE IF detail.count > CompareMax
    THEN /\ toast' = "warning"
         /\ UNCHANGED <<modalVisible, comparison>>
    ELSE /\ modalVisible' = FALSE
         /\ toast' = ""
         /\ UNCHANGED comparison

\* LucefactApp.showLayerDetail
showLayerDetail(layer) == detailPanel' = Some(layer)

\* variant: the double-click branch does not return
clickFallsThrough(i, clicks) ==
    /\ i \in DOMAIN nodes
    /\ nodes' = ToggleNode(nodes, i)
    /\ IF clicks = DoubleClick
       THEN /\ emitted' = <<ClickEvent(nodes[i].layer),
                            SelectionEvent(nodes', currentMetadata[1].layers)>>
            /\ showLayerDetail(nodes[i].layer)
            /\ lastOp' = DidOn("dblclick", i)
       ELSE /\ emitted' = <<SelectionEvent(nodes', currentMetadata[1].layers)>>
            /\ lastOp' = DidOn("click", i)
            /\ UNCHANGED detailPanel
    /\ handleLayerSelection(SelectionEvent(nodes', currentMetadata[1].layers))
    /\ thrown' = FALSE
    /\ UNCHANGED <<view, drag, currentLayout, currentMetadata, searchTerm,
                   canvasHeight, connectors, container, groups, aux>>

\* the click listener of node i, for a click event whose detail is clicks
click(i, clicks) ==
    /\ i \in DOMAIN nodes
    /\ IF clicks = DoubleClick
       THEN /\ emitted' = <<ClickEvent(nodes[i].layer)>>
            /\ showLayerDetail(nodes[i].layer)
            /\ toast' = ""
            /\ lastOp' = DidOn("dblclick", i)
            /\ UNCHANGED <<nodes, modalVisible, comparison>>
       ELSE /\ nodes' = ToggleNode(nodes, i)
            /\ emitted' = <<SelectionEvent(nodes', currentMetadata[1].layers)>>
            /\ handleLayerSelection(SelectionEvent(nodes', currentMetadata[1].layers))
            /\ lastOp' = DidOn("click", i)
            /\ UNCHANGED detailPanel
    /\ thrown' = FALSE
    /\ UNCHANGED <<view, drag, currentLayout, currentMetadata, searchTerm,
                   canvasHeight, connectors, container, groups, aux>>

\* the listener of #close-comparison
closeComparison ==
    /\ modalVisible' = FALSE
    /\ Quiet(Did("closeComparison"))
    /\ UNCHANGED <<view, drag, engine, comparison, detailPanel, aux>>

(***************************************************************************)
(* Specifications.                                                         *)
(***************************************************************************)
\* the click counts a click event carries
ClickCounts == {1, 2, 3}

\* the interaction controller
Next ==
    \/ wheel
    \/ \E px \in Coord, py \in Coord : mousedown(px, py)
    \/ \E px \in Coord, py \in Coord : mousemove(px, py)
    \/ mouseup
    \/ mouseleave
    \/ \E d \in {"in", "out"} : zoom(d)
    \/ reset

Spec == Init /\ [][Next]_vars

\* the interaction controller, with model loads
NextLoad ==
    \/ Next
    \/ \E m \in Models : visualize(m, Undefined)

SpecLoad == Init /\ [][NextLoad]_vars

\* selection, layout and the host's comparison view
NextSelection ==
    \/ \E m \in Models : visualize(m, Undefined)
    \/ \E l \in LayoutType : setLayout(l)
    \/ \E i \in DOMAIN nodes, c \in ClickCounts : click(i, c)
    \/ closeComparison

SpecSelection == Init /\ [][NextSelection]_vars

\* search with selection
NextSearch ==
    \/ \E m \in SearchModels : visualize(m, Undefined)
    \/ \E i \in DOMAIN nodes, c \in ClickCounts : click(i, c)
    \/ \E t \in Terms : search(t)

SpecSearch == Init /\ [][NextSearch]_vars

\* the engine's render, layout and search operations
NextLayout ==
    \/ \E m \in LayoutModels, l \in LayoutArgs \cup {Undefined} : visualize(m, l)
    \/ \E l \in LayoutArgs : setLayout(l)
    \/ \E t \in Terms : search(t)

SpecLayout == Init /\ [][NextLayout]_vars

\* renders of models of 0 to MaxLayers layers under each layout kind
NextExtent ==
    \E n \in 0..MaxLayers, l \in LayoutType : visualize(ModelOf(n), l)

SpecExtent == Init /\ [][NextExtent]_vars

\* the models rendered while exporting or toggling
FrameModels == {ModelDup, ModelSingle}

\* the operations that do not lay out, between renders
NextFrame ==
    \/ \E m \in FrameModels, l \in LayoutType : visualize(m, l)
    \/ \E t \in Terms : search(t)
    \/ \E d \in {"in", "out"} : zoom(d)
    \/ reset
    \/ toggleLabels
    \/ toggleParams

SpecFrame == Init /\ [][NextFrame]_vars

\* exports, with renders while an export is suspended
NextExport ==
    \/ \E m \in {ModelSingle, ModelProto}, l \in LayoutType \cup {Undefined} :
          visualize(m, l)
    \/ \E l \in LayoutType : setLayout(l)
    \/ exportAsImage
    \/ rasterized
    \/ rasterFailed
    \/ blobReady
    \/ blobMissing

SpecExport == Init /\ [][NextExport]_vars

\* layout changes of one model, with zoom, pan, search and selection
NextRelayout ==
    \/ observedLoad(ModelPair)
    \/ \E l \in LayoutType : observedSetLayout(l)
    \/ zoom("out")
    \/ mousedown(0, 0)
    \/ \E px \in Coord : mousemove(px, 0)
    \/ search("conv")
    \/ \E i \in DOMAIN nodes : click(i, 1)

SpecRelayout == Init /\ [][NextRelayout]_vars

(***************************************************************************)
(* Properties of the interaction controller, checked under Spec.           *)
(***************************************************************************)
RECURSIVE ZoomTimes(_, _, _)
\* the scale after n calls of zoom(direction) from scale s
ZoomTimes(direction, s, n) ==
    IF n = 0 THEN s ELSE ZoomTimes(direction, ZoomScale(direction, s), n - 1)

PointerOps == {"wheel", "mousedown", "mousemove", "mouseup", "mouseleave"}

\* C1: the scale always lies in [0.5, 2.0] (5..20 tenths); zoom('in') adds
\* 0.1 and zoom('out') subtracts 0.1 unless that would cross the bound, where
\* the scale stays at the bound; from 1.0, 20 zoom('in') end at exactly 2.0
\* and 20 zoom('out') at exactly 0.5.
C1_ScaleClamped ==
    /\ [](scale \in 5..20)
    /\ [][lastOp'.op = "zoomIn" =>
            scale' = IF scale + 1 <= 20 THEN scale + 1 ELSE 20]_vars
    /\ [][lastOp'.op = "zoomOut" =>
            scale' = IF scale - 1 >= 5 THEN scale - 1 ELSE 5]_vars
    /\ [](scale = 10 =>
            /\ ZoomTimes("in", scale, 20) = 20
            /\ ZoomTimes("out", scale, 20) = 5)

\* zoom('in') has saturated at 2.0 in the middle of a drag that has panned
C1_Saturated ==
    /\ lastOp.op = "zoomIn"
    /\ scale = ScaleMax
    /\ isDragging
    /\ translateX # 0

\* C6: a pointer-press leaves the controller Dragging with the pointer
\* position and the current translate captured; while Dragging, after every
\* pointer-move to (px, py) the translate is the captured translate plus the
\* pointer's offset from the captured position.
C6_DragFromPress ==
    /\ lastOp.op = "mousedown" =>
          /\ isDragging
          /\ startX = lastOp.x /\ startY = lastOp.y
          /\ startTranslateX = translateX /\ startTranslateY = translateY
    /\ (lastOp.op = "mousemove" /\ isDragging) =>
          /\ translateX = startTranslateX + lastOp.x - startX
          /\ translateY = startTranslateY + lastOp.y - startY

\* a move in a drag that started from a pan offset other than 0
C6_MovedInSecondDrag ==
    /\ lastOp.op = "mousemove"
    /\ isDragging
    /\ startTranslateX # 0
    /\ translateX # startTranslateX

\* C7: pointer-release and pointer-leave both leave the controller Idle; an
\* Idle controller becomes Dragging by a pointer-press only, and while it is
\* Idle no pointer-move changes the translate.
C7_ReleaseAndLeaveEndDrag ==
    /\ [](lastOp.op \in {"mouseup", "mouseleave"} => ~isDragging)
    /\ [][(~isDragging /\ isDragging') => lastOp'.op = "mousedown"]_vars
    /\ [][(~isDragging /\ lastOp'.op = "mousemove") =>
            (translateX' = translateX /\ translateY' = translateY)]_vars

\* the pointer has left the canvas after a drag that moved the diagram
C7_LeftAfterDrag ==
    /\ lastOp.op = "mouseleave"
    /\ ~isDragging
    /\ translateX # startTranslateX

\* C8: reset() leaves scale = 1, translateX = 0, translateY = 0.
C8_ResetRestoresView ==
    lastOp.op = "reset" => (scale = 10 /\ translateX = 0 /\ translateY = 0)

\* reset() was called during a drag that had started from a panned view
C8_ResetWhilePanned ==
    /\ lastOp.op = "reset"
    /\ isDragging
    /\ startTranslateX # 0
    /\ startTranslateY # 0

\* C9: loading a model (visualize) leaves scale = 1, translateX = 0,
\* translateY = 0, whatever zoom and pan were in effect before.
C9_LoadResetsView ==
    lastOp.op = "visualize" => (scale = 10 /\ translateX = 0 /\ translateY = 0)

\* C10: zoom changes the scale by the clamped step whatever the drag state
\* and leaves the translate and the drag state unchanged; wheel, pointer-press,
\* pointer-move, pointer-release and pointer-leave never change the scale.
C10_ZoomCommandOnly ==
    /\ [][lastOp'.op = "zoomIn" =>
            /\ scale' = IF scale + 1 <= 20 THEN scale + 1 ELSE 20
            /\ UNCHANGED <<translateX, translateY, drag>>]_vars
    /\ [][lastOp'.op = "zoomOut" =>
            /\ scale' = IF scale - 1 >= 5 THEN scale - 1 ELSE 5
            /\ UNCHANGED <<translateX, translateY, drag>>]_vars
    /\ [][lastOp'.op \in PointerOps => scale' = scale]_vars

\* zoom('out') was called in the middle of a drag
C10_ZoomedWhileDragging ==
    /\ lastOp.op = "zoomOut"
    /\ isDragging
    /\ translateY # 0
    /\ scale < ScaleOne

(***************************************************************************)
(* Properties of selection and of the host's policy, checked under         *)
(* SpecSelection.                                                          *)
(***************************************************************************)
\* the layers of the loaded model whose nodes are selected, in the model's
\* order (the layers of each model of Models are pairwise different)
SelectedRecords ==
    SelectSeq(currentMetadata[1].layers,
              LAMBDA l : \E k \in DOMAIN nodes :
                            nodes[k].selected /\ nodes[k].layer = l)

\* C2: a single activation of node X flips X's membership in the selected
\* set and leaves every other node as it was; two single activations of X in
\* a row give back the selected set.
C2_ClickToggles ==
    /\ [][lastOp'.op = "click" =>
            LET x == lastOp'.node IN
            /\ x \in DOMAIN nodes
            /\ DOMAIN nodes' = DOMAIN nodes
            /\ nodes'[x].selected = ~nodes[x].selected
            /\ nodes'[x].layer = nodes[x].layer
            /\ \A j \in DOMAIN nodes \ {x} : nodes'[j] = nodes[j]]_vars
    /\ [](\A x \in DOMAIN nodes : ToggleNode(ToggleNode(nodes, x), x) = nodes)

\* a click has removed a node from a selection that keeps another member
C2_Deselected ==
    /\ lastOp.op = "click"
    /\ ~nodes[lastOp.node].selected
    /\ \E j \in DOMAIN nodes : nodes[j].selected

\* C3: a single activation emits exactly one layerSelection event; its
\* count is the number of selected nodes and its layers are the records of
\* the selected nodes in the model's order, under every layout kind and also
\* when layer names repeat.
C3_SelectionEventCarriesSelection ==
    lastOp.op = "click" =>
        /\ Len(emitted) = 1
        /\ emitted[1].type = "layerSelection"
        /\ emitted[1].count = Len(SelectedNodes(nodes))
        /\ emitted[1].layers = SelectedRecords

\* C4: on a selection event the host hides the comparison for count 0 or 1,
\* shows it with the event's records for count 2 or 3, and for a larger count
\* raises a warning while the diagram keeps every selected node: a 4th
\* activation leaves 4 nodes selected.
C4_CountPolicy ==
    /\ [](lastOp.op = "click" =>
            LET detail == emitted[1] IN
            /\ detail.count \in {0, 1} => (~modalVisible /\ toast = "")
            /\ detail.count \in {2, 3} =>
                  (modalVisible /\ comparison = detail.layers /\ toast = "")
            /\ detail.count > 3 =>
                  (toast = "warning" /\ Len(SelectedNodes(nodes)) = detail.count))
    /\ [][(lastOp'.op = "click" /\ Len(SelectedNodes(nodes)) = 3
             /\ ~nodes[lastOp'.node].selected) =>
            (Len(SelectedNodes(nodes')) = 4 /\ toast' = "warning")]_vars

\* a 4th node was selected and the warning raised
C4_Overflow ==
    /\ lastOp.op = "click"
    /\ toast = "warning"
    /\ Len(SelectedNodes(nodes)) = 4

\* C5: a click whose click count is 2 emits one layerClick event carrying
\* the node's record, which the host shows in the detail panel; it leaves
\* every node's selected state as it was and emits no layerSelection event.
C5_DoubleClickDetail ==
    /\ [](lastOp.op = "dblclick" =>
            /\ emitted = <<ClickEvent(nodes[lastOp.node].layer)>>
            /\ detailPanel = Some(nodes[lastOp.node].layer))
    /\ [][lastOp'.op = "dblclick" => nodes' = nodes]_vars

\* a selected node of a tree layout was double-clicked
C5_DoubleClickedSelected ==
    /\ lastOp.op = "dblclick"
    /\ currentLayout = "tree"
    /\ nodes[lastOp.node].selected

(***************************************************************************)
(* Properties of search, checked under SpecSearch.                         *)
(***************************************************************************)
\* the characters of a node's name and type, in lower case
NameChars(node) == ToLowerCase(Spell(node.layer.name))
TypeChars(node) == ToLowerCase(Spell(node.layer.type))

\* C11: after a search with a non-empty term a node is highlighted and not
\* dimmed when its name or its type contains the term, compared without
\* regard to case, and dimmed and not highlighted otherwise; after a search
\* with the empty term no node is dimmed or highlighted; no node is ever
\* dimmed and highlighted at once.
C11_SearchClassifies ==
    /\ [][\A t \in Terms : search(t) =>
            \A k \in DOMAIN nodes' :
                LET hit == \/ Includes(NameChars(nodes'[k]), ToLowerCase(Spell(t)))
                           \/ Includes(TypeChars(nodes'[k]), ToLowerCase(Spell(t)))
                IN IF t = ""
                   THEN ~nodes'[k].dimmed /\ ~nodes'[k].highlighted
                   ELSE /\ nodes'[k].highlighted = hit
                        /\ nodes'[k].dimmed = ~hit]_vars
    /\ [](\A k \in DOMAIN nodes : ~(nodes[k].dimmed /\ nodes[k].highlighted))

\* a search has highlighted a node through its type only and dimmed another
C11_TypeHit ==
    /\ lastOp.op = "search"
    /\ \E k \in DOMAIN nodes :
          /\ nodes[k].highlighted
          /\ ~Includes(NameChars(nodes[k]), searchTerm)
          /\ Includes(TypeChars(nodes[k]), searchTerm)
    /\ \E k \in DOMAIN nodes : nodes[k].dimmed

\* the dimmed/highlighted classes of the nodes, in document order
Classes(ns) ==
    [k \in DOMAIN ns |-> <<ns[k].dimmed, ns[k].highlighted>>]

\* C12: a search changes no node's selected state and emits no event; a
\* click or double click changes no node's dimmed/highlighted class; a
\* selected node can be dimmed or highlighted.
C12_SearchSelectionIndependent ==
    /\ [][lastOp'.op = "search" =>
            /\ \A k \in DOMAIN nodes : nodes'[k].selected = nodes[k].selected
            /\ DOMAIN nodes' = DOMAIN nodes
            /\ emitted' = << >>
            /\ UNCHANGED host]_vars
    /\ [][lastOp'.op \in {"click", "dblclick"} =>
            /\ Classes(nodes') = Classes(nodes)
            /\ searchTerm' = searchTerm]_vars

\* a search has dimmed one selected node and highlighted another
C12_SelectedDimmedAndHighlighted ==
    /\ lastOp.op = "search"
    /\ \E k \in DOMAIN nodes : nodes[k].selected /\ nodes[k].dimmed
    /\ \E k \in DOMAIN nodes : nodes[k].selected /\ nodes[k].highlighted

(***************************************************************************)
(* Properties of rendering and layout, checked under SpecLayout.           *)
(***************************************************************************)
\* the layers of the loaded model
LoadedLayers == currentMetadata[1].layers

\* the last operation rendered: visualize, or setLayout with a model loaded
Rendered ==
    /\ lastOp.op \in {"visualize", "setLayout"}
    /\ currentMetadata # Null

\* C13: after every render, also the one made by setLayout, the stored
\* search term is the empty string and no rendered node is dimmed or
\* highlighted.
C13_RenderClearsSearch ==
    Rendered =>
        /\ searchTerm = << >>
        /\ \A k \in DOMAIN nodes : ~nodes[k].dimmed /\ ~nodes[k].highlighted

\* C14: setLayout(kind) with a model loaded renders that model again under
\* kind: the active layout kind becomes kind and the model stays; with no
\* model loaded it changes nothing of the engine's state.
C14_SetLayoutRerenders ==
    [][lastOp'.op = "setLayout" =>
        IF currentMetadata # Null
        THEN /\ currentLayout' = lastOp'.layout
             /\ currentMetadata' = currentMetadata
             /\ (lastOp'.layout \in LayoutType /\ ~thrown') =>
                   nodes' = RenderNodes(lastOp'.layout, LoadedLayers)
        ELSE UNCHANGED <<currentLayout, currentMetadata, nodes, connectors,
                         canvasHeight, view, searchTerm>>]_vars

\* setLayout has turned a rendered model of several layers into a circle
C14_Relaid ==
    /\ lastOp.op = "setLayout"
    /\ lastOp.layout = "circular"
    /\ currentMetadata # Null
    /\ currentLayout = "circular"
    /\ Len(nodes) > 1

\* C15: a call of setLayout or visualize with a layout kind outside the
\* enumeration leaves the active layout kind, the rendered nodes and
\* connectors and the canvas height exactly as they were.
C15_InvalidKindRejected ==
    [][(lastOp'.op \in {"visualize", "setLayout"}
          /\ lastOp'.layout \notin LayoutType \cup {Undefined}) =>
        UNCHANGED <<currentLayout, nodes, connectors, canvasHeight>>]_vars

\* C16: visualize called without a layout lays the model out with the
\* layout kind that is active at the call, which is vertical until a call
\* has set another kind.
C16_RenderKeepsActiveLayout ==
    /\ [][(lastOp'.op = "visualize" /\ lastOp'.layout = Undefined) =>
            /\ currentLayout' = currentLayout
            /\ ~thrown' =>
                  nodes' = RenderNodes(currentLayout, currentMetadata'[1].layers)]_vars
    /\ [](lastOp.op = "new" => currentLayout = "vertical")

\* a model of several layers was loaded without a layout while the circular
\* layout was active
C16_LoadedUnderCircular ==
    /\ lastOp.op = "visualize"
    /\ lastOp.layout = Undefined
    /\ currentLayout = "circular"
    /\ Len(nodes) > 1

\* C16 as stated: visualize called without a layout lays the model out
\* with the vertical layout, whatever kind was active before.
C16_RenderUsesDefault ==
    [][(lastOp'.op = "visualize" /\ lastOp'.layout = Undefined) =>
        currentLayout' = "vertical"]_vars

\* C17: with a model loaded, under each of the four layout kinds, the
\* number of rendered nodes is the number of layers of the loaded model.
C17_NodeCountIsLayerCount ==
    (currentMetadata # Null /\ currentLayout \in LayoutType) =>
        Len(nodes) = Len(LoadedLayers)

\* C18: under the vertical, horizontal and circular layouts a model of
\* N >= 1 layers has N nodes and N - 1 connectors, the i-th between node i
\* and node i + 1; a model of no layers has no node and no connector; no
\* connector leads from the last node back to the first.
C18_ConnectorCount ==
    (currentMetadata # Null
       /\ currentLayout \in {"vertical", "horizontal", "circular"}) =>
        LET N == Len(LoadedLayers) IN
        /\ Len(nodes) = N
        /\ Len(connectors) = IF N >= 1 THEN N - 1 ELSE 0
        /\ \A i \in DOMAIN connectors :
              connectors[i].from = i /\ connectors[i].to = i + 1
        /\ \A i \in DOMAIN connectors :
              ~(connectors[i].from = N /\ connectors[i].to = 1)

\* a circle of at least three nodes was rendered
C18_OpenCircle ==
    /\ Rendered
    /\ currentLayout = "circular"
    /\ Len(nodes) >= 3
    /\ Len(connectors) = Len(nodes) - 1

\* C19: when every layer of the loaded model has 0 parameters, every node's
\* width is the layout's minimum width and its size bar is 0%, never NaN.
C19_ZeroParamsWellDefined ==
    (currentMetadata # Null
       /\ \A i \in DOMAIN LoadedLayers : LoadedLayers[i].parameters = 0) =>
        \A k \in DOMAIN nodes :
            /\ ~IsNaN(nodes[k].width)
            /\ ~IsNaN(nodes[k].sizeBar)
            /\ nodes[k].width = WidthOf(currentLayout, Frac(0, 1))
            /\ nodes[k].sizeBar = Frac(0, 1)

\* the bounds of the width under the active layout
MinWidth == IF currentLayout = "horizontal" THEN Frac(280, 1) ELSE Frac(300, 1)
MaxWidth == IF currentLayout = "horizontal" THEN Frac(350, 1) ELSE Frac(500, 1)

\* C20: of two rendered layers the one with more parameters is at least as
\* wide as the other, and every width lies between the minimum and the
\* maximum width of the active layout.
C20_WidthMonotoneInRange ==
    /\ \A a, b \in DOMAIN nodes :
          nodes[a].layer.parameters > nodes[b].layer.parameters =>
              FracGE(nodes[a].width, nodes[b].width)
    /\ \A k \in DOMAIN nodes :
          /\ FracGE(nodes[k].width, MinWidth)
          /\ FracGE(MaxWidth, nodes[k].width)

(***************************************************************************)
(* Properties over several operations.                                     *)
(***************************************************************************)
\* C29: after reset the pan offset stays (0, 0) until the next press, also
\* when reset ran in the middle of a drag: the operation that follows a
\* reset, unless it is a press, leaves the pan offset at (0, 0).
C29_ResetHoldsPan ==
    [][(lastOp.op = "reset" /\ lastOp'.op # "mousedown") =>
        (translateX' = 0 /\ translateY' = 0)]_vars

\* C30: the comparison view is visible only while 2 or 3 nodes of the
\* rendered diagram are selected, and it shows the records of those nodes.
C30_ComparisonFollowsSelection ==
    modalVisible =>
        /\ Len(SelectedNodes(nodes)) \in {2, 3}
        /\ comparison = SelectedRecords

(***************************************************************************)
(* Properties of the extent and of the circular layout, checked under      *)
(* SpecExtent.                                                             *)
(***************************************************************************)
\* a = b for two numbers that are not NaN
FracEq(a, b) == ~IsNaN(a) /\ ~IsNaN(b) /\ a.num * b.den = b.num * a.den

\* the least k with 3 * k >= n
Ceil3(n) == CHOOSE k \in 0..n : 3 * k >= n /\ 3 * (k - 1) < n

\* v limited to lo..hi
Clamp(v, lo, hi) == IF v < lo THEN lo ELSE IF v > hi THEN hi ELSE v

\* C24: with N layers loaded the canvas height is max(600, N*150 + 100)
\* under the vertical layout, max(600, ceil(N/3)*180 + 100) under the
\* horizontal layout and 400 + N*10 limited to [400, 1000] under the tree
\* layout; for N = 0 it is 600, 600 and 400.
C24_CanvasHeight ==
    currentMetadata # Null =>
        LET N == Len(LoadedLayers) IN
        /\ currentLayout = "vertical" =>
              /\ canvasHeight = Some(Max(600, N * 150 + 100))
              /\ N = 0 => canvasHeight = Some(600)
        /\ currentLayout = "horizontal" =>
              /\ canvasHeight = Some(Max(600, Ceil3(N) * 180 + 100))
              /\ N = 0 => canvasHeight = Some(600)
        /\ currentLayout = "tree" =>
              /\ canvasHeight = Some(Clamp(400 + N * 10, 400, 1000))
              /\ N = 0 => canvasHeight = Some(400)

\* a last row of the horizontal layout that holds one node raised the canvas
C24_PartialRow ==
    /\ lastOp.op = "visualize"
    /\ currentLayout = "horizontal"
    /\ Len(LoadedLayers) % 3 = 1
    /\ canvasHeight = Some((((Len(LoadedLayers) - 1) \div 3) + 1) * 180 + 100)
    /\ canvasHeight[1] > 600

\* C25: under the circular layout of N layers the radius is N*15 limited
\* to [200, 300] and the side is 2*radius + 150 + 100; the canvas height
\* and the container's width and height are that side, and every node is
\* placed at distance radius from the centre (side/2, side/2).
C25_CircularExtent ==
    (currentMetadata # Null /\ currentLayout = "circular") =>
        LET N == Len(LoadedLayers)
            radius == Clamp(N * 15, 200, 300)
            side == 2 * radius + 150 + 100
        IN /\ canvasHeight = Some(side)
           /\ container = Some([size |-> Some(side)])
           /\ \A k \in DOMAIN nodes :
                 /\ nodes[k].pos # Null
                 /\ nodes[k].pos[1].radius = radius
                 /\ FracEq(nodes[k].pos[1].centerX, Frac(side, 2))
                 /\ FracEq(nodes[k].pos[1].centerY, Frac(side, 2))

\* a circle of so many layers that the radius is held at 300
C25_RadiusHeld ==
    /\ lastOp.op = "visualize"
    /\ currentLayout = "circular"
    /\ Len(LoadedLayers) * 15 > 300
    /\ canvasHeight = Some(850)
    /\ Len(nodes) = Len(LoadedLayers)

\* the turn of node k (from 1) of the circle, and the turn between two
TurnOf(k) == nodes[k].pos[1].turn
FracSub(a, b) == Frac(a.num * b.den - b.num * a.den, a.den * b.den)

\* C26: in the circle of N nodes node i (from 0) is i/N of a full turn
\* clockwise from the 12-o'clock position: node 0 is a quarter turn before
\* the 3-o'clock axis for every N >= 1, and for N = 4 the nodes are at
\* -1/4, 0, 1/4 and 1/2 of a turn: top, right, bottom, left.
C26_CircularAngles ==
    (currentMetadata # Null /\ currentLayout = "circular") =>
        LET N == Len(LoadedLayers) IN
        /\ \A k \in DOMAIN nodes :
              FracEq(FracSub(TurnOf(k), TurnOf(1)), Frac(k - 1, N))
        /\ N >= 1 => FracEq(TurnOf(1), Frac(-1, 4))
        /\ N = 4 => /\ FracEq(TurnOf(1), Frac(-1, 4))
                    /\ FracEq(TurnOf(2), Frac(0, 1))
                    /\ FracEq(TurnOf(3), Frac(1, 4))
                    /\ FracEq(TurnOf(4), Frac(1, 2))

\* a circle of four nodes was rendered
C26_FourNodes ==
    /\ lastOp.op = "visualize"
    /\ currentLayout = "circular"
    /\ Len(nodes) = 4
    /\ \A k \in DOMAIN nodes : nodes[k].pos # Null

(***************************************************************************)
(* Properties of the tree layout, checked under SpecLayout.                *)
(***************************************************************************)
\* the types of the loaded model, in the order of their first occurrence
TypesInOrder == Dedup(TypesOf(LoadedLayers))

\* C27: under the tree layout there is one group per type, the groups
\* stand in the order in which the types first occur in the layer list,
\* each group holds the layers of its type in their original order and
\* shows its type and member count, the nodes are the groups' members in
\* that order, and there is no connector.
C27_TreeGroups ==
    (currentMetadata # Null /\ currentLayout = "tree") =>
        /\ Len(groups) = Len(TypesInOrder)
        /\ \A g \in DOMAIN groups :
              /\ groups[g].type = TypesInOrder[g]
              /\ groups[g].members = GroupOf(LoadedLayers, TypesInOrder[g])
              /\ groups[g].count = Len(groups[g].members)
        /\ [k \in DOMAIN nodes |-> nodes[k].layer]
              = Concat([g \in DOMAIN groups |-> groups[g].members])
        /\ connectors = << >>

(***************************************************************************)
(* Properties of relayout (SpecRelayout), of the operations that do not    *)
(* lay out (SpecFrame) and of export (SpecExport).                         *)
(***************************************************************************)
\* what is rendered now
Surface == SurfaceOf(nodes, connectors, groups, container, canvasHeight)

\* C21: with the model unchanged, a setLayout(A) that follows the first
\* setLayout(A) renders exactly the nodes, sizes, positions, connectors
\* and canvas extent of the first, whatever layout changes, zoom, pan,
\* search and selection came between.
C21_RelayoutReproduces ==
    [][(lastOp'.op = "setLayout" /\ firstSurface # Null
          /\ lastOp'.layout = firstSurface[1].layout) =>
        Surface' = firstSurface[1].surface]_vars

\* the first layout was rendered again after another layout, a zoom, a pan,
\* a search and a selection that opened the comparison
C21_BackToFirst ==
    /\ lastOp.op = "setLayout"
    /\ firstSurface # Null
    /\ firstSurface[1].between
    /\ lastOp.layout = firstSurface[1].layout
    /\ scale # ScaleOne
    /\ translateX # 0
    /\ searchTerm # << >>
    /\ modalVisible

\* the operations that do not lay out
NoLayoutOps ==
    {"search", "zoomIn", "zoomOut", "reset", "toggleLabels", "toggleParams"}

\* C22: search, zoom, reset, toggleLabels and toggleParams leave the loaded
\* model, the active layout kind, the rendered nodes in their order with
\* their sizes and positions, the connectors and the canvas extent as they
\* were.
C22_NoRelayout ==
    [][lastOp'.op \in NoLayoutOps =>
        /\ UNCHANGED <<currentMetadata, currentLayout>>
        /\ Surface' = Surface]_vars

\* the parameters were hidden on a zoomed circle with a dimmed node and
\* hidden labels
C22_ToggledOnCircle ==
    /\ lastOp.op = "toggleParams"
    /\ hideParams
    /\ hideLabels
    /\ currentLayout = "circular"
    /\ scale # ScaleOne
    /\ \E k \in DOMAIN nodes : nodes[k].dimmed

\* C23: an export that fails, because the rasterization throws or because
\* no blob is produced, raises a message, triggers no download and leaves
\* model, layout kind, view, search term and nodes as they were.
C23_FailedExportReported ==
    [][lastOp'.op \in {"rasterFailed", "blobMissing"} =>
        /\ alerted' # ""
        /\ downloaded' = Null
        /\ UNCHANGED <<currentMetadata, currentLayout, view, searchTerm, nodes>>]_vars

\* C28: the layout kind in the name of a downloaded file is the layout kind
\* that was active when the export was started.
C28_FileNamedAfterCapture ==
    downloaded # Null => downloaded[1].layout = downloaded[1].started

====
